---- MODULE Spec2Model ----
(***************************************************************************)
(* ezan-go: the daily adhan scheduler of src/ezan.go.                      *)
(*                                                                         *)
(* The program keeps a gocron scheduler with one job at 00:00 that         *)
(* rebuilds the day's five "adhan" jobs, an HTTP endpoint POST /settings   *)
(* that merges a partial update into config.toml, reloads the in-memory    *)
(* config and rebuilds, and a playback chain run by every job firing.      *)
(* Every goroutine (main, the 00:00 job, each HTTP request, each firing)   *)
(* is a process here; a step is one call that reads or writes shared       *)
(* state (the scheduler's job list, config, coordinates, config.toml, the  *)
(* speaker).                                                               *)
(***************************************************************************)
EXTENDS Integers, Sequences, FiniteSets, TLC

(* ------------------------------ bounds -------------------------------- *)

\* Ticks in one day; tick 0 of a day is 00:00.
DayLen == 4
\* Days the clock may run through.
MaxDay == 2
\* HTTP requests to /settings served in one run.
MaxRequests == 1
\* Job firings (playback chains) in one run.
MaxFirings == 2
\* Requests and job firings together in one run.
MaxEvents == 2
\* Ticks that may pass while a rebuild is between its scheduleAdhan calls
\* (none passes while a goroutine is between two other steps).
MaxBusyTicks == 1

(* --------------------------- names and files --------------------------- *)

\* The order of the five scheduleAdhan calls of updatePrayerTimes.
Names == <<"fajr", "dhuhr", "asr", "maghrib", "isha">>

PrayerNames == {Names[i] : i \in 1..Len(Names)}

\* audioFiles: the audio types that have a file.
audioFiles == PrayerNames \cup {"test", "prayer", "sela"}

(* ------------------------- TOML / JSON documents ----------------------- *)

\* A scalar of a document: a float64 (every JSON number, every TOML float),
\* a bool or a string.
SFloat(n) == [type |-> "float", num |-> n, str |-> ""]
SBool(b) == [type |-> "bool", num |-> IF b THEN 1 ELSE 0, str |-> ""]
SString(s) == [type |-> "string", num |-> 0, str |-> s]

NoKeys == [k \in {} |-> SFloat(0)]

\* g's keys written over f's (the loops "currentConfig[key] = value" and
\* "currentVolume[k] = v").
Overwrite(f, g) ==
    [k \in DOMAIN f \cup DOMAIN g |-> IF k \in DOMAIN g THEN g[k] ELSE f[k]]

\* config.toml as a document: the top-level scalar keys, whether the key
\* "volume" holds a table, and that table.
EmptyDoc == [top |-> NoKeys, hasVolume |-> FALSE, volume |-> NoKeys]

\* A request body decoded by BindJSON: the top-level keys other than
\* "volume", and "volume" as absent ("none"), a JSON object or a scalar.
Body(top, kind, vol) == [top |-> top, volumeKind |-> kind, volume |-> vol]

\* The loop of updateSettingsHandler over the update's keys: "volume" is
\* merged key by key, and only when both the update's value and the stored
\* value are tables; every other key overwrites.
MergeUpdates(cur, updates) ==
    [top |-> Overwrite(cur.top, updates.top),
     hasVolume |-> cur.hasVolume,
     volume |-> IF updates.volumeKind = "object" /\ cur.hasVolume
                THEN Overwrite(cur.volume, updates.volume)
                ELSE cur.volume]

(* ------------------------------ Config --------------------------------- *)

\* The toml tags of Config and of Config.Volume: key -> field.
TopTag ==
    ("lan" :> "Lan") @@ ("lon" :> "Lon")
    @@ ("calculation_method" :> "CalculationMethod")
    @@ ("adhan_prayer" :> "AdhanPrayer")

VolumeTag ==
    ("fajr" :> "Fajr") @@ ("dhur" :> "Dhuhr") @@ ("asr" :> "Asr")
    @@ ("maghrib" :> "Maghrib") @@ ("isha" :> "Isha")
    @@ ("adhan_prayer" :> "AdhanPrayer") @@ ("sela" :> "Sela")

VolumeFields == {VolumeTag[k] : k \in DOMAIN VolumeTag}

\* The Go type of each field, as the scalar type a TOML value must have.
FieldType ==
    ("Lan" :> "float") @@ ("Lon" :> "float")
    @@ ("CalculationMethod" :> "string") @@ ("AdhanPrayer" :> "bool")

\* var config Config: the zero value.
ZeroConfig ==
    [Lan |-> 0, Lon |-> 0, CalculationMethod |-> "", AdhanPrayer |-> FALSE,
     Volume |-> [f \in VolumeFields |-> 0]]

\* One decoded key stored in its field.
SetTop(cfg, key, val) ==
    CASE TopTag[key] = "Lan" -> [cfg EXCEPT !.Lan = val.num]
      [] TopTag[key] = "Lon" -> [cfg EXCEPT !.Lon = val.num]
      [] TopTag[key] = "CalculationMethod" ->
            [cfg EXCEPT !.CalculationMethod = val.str]
      [] OTHER -> [cfg EXCEPT !.AdhanPrayer = (val.num = 1)]

\* The keys of a document that name a field, and those among them whose
\* value has the wrong type for it. Keys without a field are ignored.
TopKnown(doc) == DOMAIN doc.top \cap DOMAIN TopTag
TopBad(doc) == {k \in TopKnown(doc) : doc.top[k].type # FieldType[TopTag[k]]}
VolumeKnown(doc) ==
    IF doc.hasVolume THEN DOMAIN doc.volume \cap DOMAIN VolumeTag ELSE {}
VolumeBad(doc) == {k \in VolumeKnown(doc) : doc.volume[k].type # "float"}

\* The fields of cfg overwritten from the keys `tops` and the volume keys
\* `vols` of doc; every other field keeps its value (toml decodes into the
\* existing struct).
RECURSIVE ApplyTop(_, _, _)
ApplyTop(cfg, doc, tops) ==
    IF tops = {} THEN cfg
    ELSE LET k == CHOOSE x \in tops : TRUE
         IN  ApplyTop(SetTop(cfg, k, doc.top[k]), doc, tops \ {k})

ApplyVolume(cfg, doc, vols) ==
    [cfg EXCEPT !.Volume =
        [f \in VolumeFields |->
            IF \E k \in vols : VolumeTag[k] = f
            THEN doc.volume[CHOOSE k \in vols : VolumeTag[k] = f].num
            ELSE cfg.Volume[f]]]

DecodeOk(doc) == TopBad(doc) = {} /\ VolumeBad(doc) = {}

\* toml.DecodeFile into cfg, the document being well typed.
DecodeInto(cfg, doc) ==
    ApplyVolume(ApplyTop(cfg, doc, TopKnown(doc)), doc, VolumeKnown(doc))

\* toml.DecodeFile into cfg failing on a type mismatch: the keys are
\* visited in map order, so any of the well-typed keys may have been stored
\* before the failing one was met.
DecodeFailInto(cfg, doc) ==
    {ApplyVolume(ApplyTop(cfg, doc, tops), doc, vols) :
        tops \in SUBSET (TopKnown(doc) \ TopBad(doc)),
        vols \in IF VolumeBad(doc) = {}
                 THEN {{}, VolumeKnown(doc)}
                 ELSE SUBSET (VolumeKnown(doc) \ VolumeBad(doc))}

\* getVolumeForPrayer
getVolumeForPrayer(cfg, prayerType) ==
    CASE prayerType = "fajr" -> cfg.Volume["Fajr"]
      [] prayerType = "dhuhr" -> cfg.Volume["Dhuhr"]
      [] prayerType = "asr" -> cfg.Volume["Asr"]
      [] prayerType = "maghrib" -> cfg.Volume["Maghrib"]
      [] prayerType = "isha" -> cfg.Volume["Isha"]
      [] prayerType = "prayer" -> cfg.Volume["AdhanPrayer"]
      [] prayerType = "sela" -> cfg.Volume["Sela"]
      [] OTHER -> 100

\* getCalculationMethod: an unknown name falls back to TURKEY.
CalculationMethods ==
    {"OTHER", "MUSLIM_WORLD_LEAGUE", "TURKEY", "EGYPTIAN", "KARACHI",
     "UMM_AL_QURA", "DUBAI", "MOON_SIGHTING_COMMITTEE", "NORTH_AMERICA",
     "KUWAIT", "QATAR", "SINGAPORE", "UOIF"}

getCalculationMethod(methodStr) ==
    IF methodStr \in CalculationMethods THEN methodStr ELSE "TURKEY"

(* ----------------------------- coordinates ----------------------------- *)

\* var coordinates *util.Coordinates: nil, or a validated pair.
NilCoordinates == [nil |-> TRUE, lat |-> 0, lon |-> 0]

\* util.NewCoordinates: a pointer for a latitude in [-90,90] and a longitude
\* in [-180,180]; nil and an error otherwise.
NewCoordinates(lat, lon) ==
    IF lat >= -90 /\ lat <= 90 /\ lon >= -180 /\ lon <= 180
    THEN [nil |-> FALSE, lat |-> lat, lon |-> lon]
    ELSE NilCoordinates

(* --------------------------- prayer times ------------------------------ *)

\* calc.NewPrayerTimes followed by SetTimeZone, for the coordinates given:
\* the time of day of each prayer, in ticks after 00:00, in the order
\* fajr <= dhuhr <= asr <= maghrib <= isha. Southern latitudes of the model
\* get the later table. Two prayers may share a tick.
PrayerTimesAt(coords) ==
    [n \in PrayerNames |->
        LET i == CHOOSE k \in 1..Len(Names) : Names[k] = n
        IN  IF coords.lat >= 50
            THEN 1 + ((i - 1) * (DayLen - 1)) \div Len(Names)
            ELSE 1 + (i * (DayLen - 1)) \div (Len(Names) + 1)]

NoTimes == [n \in PrayerNames |-> 0]

(* ------------------------------ the clock ------------------------------ *)

Tod(t) == t % DayLen
Midnight(t) == t - Tod(t)

\* prayerTime.Format("15:04:05"): the time of day of a time.Time; the date
\* is dropped.
FormatTime(t) == Tod(t)

\* gocron, Every(1).Day().At(at): the next run is today when `at` is still
\* ahead of now, tomorrow otherwise.
NextRun(at, now) ==
    IF at > Tod(now) THEN Midnight(now) + at ELSE Midnight(now) + DayLen + at

(* ------------------------------ processes ------------------------------ *)

MainT == <<"main", 0>>
CronT == <<"cron", 0>>
Requests == {<<"req", i>> : i \in 1..MaxRequests}
Threads == {MainT, CronT} \cup Requests

\* The request bodies tried: a volume for fajr, a volume for dhuhr, a
\* latitude out of range, a latitude of the wrong type beside another key,
\* the secondary sound switched off, another valid latitude, a volume
\* above 100.
Bodies ==
    {Body(NoKeys, "object", "fajr" :> SFloat(0)),
     Body(NoKeys, "object", "asr" :> SFloat(150)),
     Body(NoKeys, "object", "dhuhr" :> SFloat(0)),
     Body("lan" :> SFloat(200), "none", NoKeys),
     Body(("lan" :> SString("north")) @@ ("adhan_prayer" :> SBool(FALSE)),
          "none", NoKeys),
     Body("adhan_prayer" :> SBool(FALSE), "none", NoKeys),
     Body("lan" :> SFloat(41), "none", NoKeys)}

NoBody == Body(NoKeys, "none", NoKeys)

\* config.toml as shipped, and the same file without its [volume] table.
FullDoc ==
    [top |-> ("lan" :> SFloat(52)) @@ ("lon" :> SFloat(13))
             @@ ("calculation_method" :> SString("TURKEY"))
             @@ ("adhan_prayer" :> SBool(TRUE)),
     hasVolume |-> TRUE,
     volume |-> [k \in DOMAIN VolumeTag |-> SFloat(80)]]

NoVolumeDoc == [FullDoc EXCEPT !.hasVolume = FALSE, !.volume = NoKeys]

InitDocs == {FullDoc, NoVolumeDoc}

VARIABLES
    clock,        \* time.Now(), in ticks
    started,      \* the scheduler is running (StartBlocking was called)
    jobs,         \* the scheduler's jobs tagged "adhan"
    midnight,     \* the job registered at 00:00
    config,       \* var config Config
    coordinates,  \* var coordinates *util.Coordinates
    store,        \* the file config.toml
    pc,           \* where each goroutine is
    loc,          \* each goroutine's local variables
    chains,       \* the playback chains started by job firings
    mixer,        \* the streamers the speaker is playing
    nrebuild,     \* rebuilds that computed their times so far
    lastRebuild,  \* the rebuild that last cleared the "adhan" jobs
    busyTicks     \* ticks that passed during the scheduleAdhan calls under way

vars ==
    <<clock, started, jobs, midnight, config, coordinates, store, pc, loc,
      chains, mixer, nrebuild, lastRebuild, busyTicks>>

\* A goroutine's locals. body, cur: updates and currentConfig of
\* updateSettingsHandler, read: currentConfig as it was decoded; times, rid,
\* next: prayerTimes of updatePrayerTimes, the number of this rebuild and
\* the next scheduleAdhan call; status: the
\* HTTP status written. The rest records what happened to the request:
\* pre* and before are config, coordinates and the jobs when the reload and
\* the rebuild began.
NoLocals ==
    [body |-> NoBody, read |-> EmptyDoc, cur |-> EmptyDoc,
     times |-> NoTimes, rid |-> 0,
     next |-> 0, status |-> 0, persisted |-> FALSE, reloadErr |-> "none",
     computed |-> "none", preConfig |-> ZeroConfig,
     preCoordinates |-> NilCoordinates, before |-> {}, overlapped |-> FALSE]

InitWith(docs) ==
    /\ clock \in 0..(DayLen - 1)
    /\ started = FALSE
    /\ jobs = {}
    /\ midnight = [armed |-> FALSE, due |-> 0]
    /\ config = ZeroConfig
    /\ coordinates = NilCoordinates
    /\ store \in {[ok |-> TRUE, doc |-> d] : d \in docs}
    /\ pc = [t \in Threads |-> IF t = MainT THEN "m_load" ELSE "idle"]
    /\ loc = [t \in Threads |-> NoLocals]
    /\ chains = << >>
    /\ mixer = {}
    /\ nrebuild = 0
    /\ lastRebuild = 0
    /\ busyTicks = 0

\* The program started with config.toml as shipped.
Init == InitWith({FullDoc})

\* The requests that have arrived and the jobs that have fired.
Events == Len(chains) + Cardinality({r \in Requests : pc[r] # "idle"})

\* log.Fatalf, or a panic nobody recovers, ends the process.
Alive == pc[MainT] # "exit"

\* router.Run is serving once main has started its goroutine.
HttpUp == Alive /\ pc[MainT] \notin {"m_load", "m_http"}

RebuildLabels == {"upt_calc", "upt_remove", "upt_sched"}
InRebuild(t) == pc[t] \in RebuildLabels

(* ------------------------- updatePrayerTimes --------------------------- *)

\* Where a goroutine goes on when updatePrayerTimes returns.
AfterUpdate(t) ==
    IF t = MainT THEN "m_start" ELSE IF t = CronT THEN "idle" ELSE "h_ok"

\* Bookkeeping: goroutine t begins a rebuild; it and every goroutine that is
\* inside one are marked as overlapping when another is.
MarkOverlap(l, t) ==
    [u \in Threads |->
        IF u = t
        THEN [l[u] EXCEPT !.overlapped = \E v \in Threads \ {t} : InRebuild(v)]
        ELSE IF InRebuild(u) THEN [l[u] EXCEPT !.overlapped = TRUE] ELSE l[u]]

\* c.JSON(code, ...) followed by return.
Respond(r, code, l) ==
    /\ pc' = [pc EXCEPT ![r] = "done"]
    /\ loc' = [l EXCEPT ![r] =
                  [NoLocals EXCEPT !.body = l[r].body, !.status = code,
                                   !.persisted = l[r].persisted,
                                   !.reloadErr = l[r].reloadErr,
                                   !.computed = l[r].computed]]

\* A panic in goroutine t: gin's Recovery middleware answers 500 for a
\* request; in main or in a job's goroutine nothing recovers it.
Panicked(t, l) ==
    IF t \in Requests
    THEN Respond(t, 500, l)
    ELSE /\ pc' = [pc EXCEPT ![t] = "panic", ![MainT] = "exit"]
         /\ loc' = l

\* The locals of goroutine t once updatePrayerTimes has returned: those of
\* the rebuild are gone; a request keeps the outcome for its answer.
Returned(t, outcome) ==
    IF t \in Requests
    THEN [loc[t] EXCEPT !.computed = outcome, !.times = NoTimes, !.rid = 0,
                        !.next = 0, !.overlapped = FALSE]
    ELSE NoLocals

\* Lines 167-190: the date, the method, calc.NewPrayerTimes with the global
\* coordinates, SetTimeZone. A nil coordinates pointer panics; either call
\* may return an error, and then updatePrayerTimes returns having touched
\* nothing.
CalcFails(t) ==
    /\ pc' = [pc EXCEPT ![t] = AfterUpdate(t)]
    /\ loc' = [loc EXCEPT ![t] = Returned(t, "error")]
    /\ UNCHANGED nrebuild

CalcSucceeds(t) ==
    /\ pc' = [pc EXCEPT ![t] = "upt_remove"]
    /\ nrebuild' = nrebuild + 1
    /\ loc' = [loc EXCEPT ![t].computed = "ok",
                          ![t].times = PrayerTimesAt(coordinates),
                          ![t].rid = nrebuild + 1]

upt_calc(t) ==
    /\ Alive /\ pc[t] = "upt_calc"
    /\ IF coordinates.nil
       THEN Panicked(t, loc) /\ UNCHANGED nrebuild
       ELSE CalcFails(t) \/ CalcSucceeds(t)
    /\ UNCHANGED <<clock, started, jobs, midnight, config, coordinates, store,
                   chains, mixer, lastRebuild, busyTicks>>

\* updatePrayerTimes without its RemoveByTag, as in the program's first
\* version: the jobs of the rebuild before stay.
upt_keep(t) ==
    /\ Alive /\ pc[t] = "upt_remove"
    /\ lastRebuild' = loc[t].rid
    /\ pc' = [pc EXCEPT ![t] = "upt_sched"]
    /\ loc' = [loc EXCEPT ![t].next = 1]
    /\ UNCHANGED <<clock, started, jobs, midnight, config, coordinates, store,
                   chains, mixer, nrebuild, busyTicks>>

\* updatePrayerTimes with scheduler.Clear() in the place of RemoveByTag:
\* every job goes, the daily one too.
upt_clear(t) ==
    /\ Alive /\ pc[t] = "upt_remove"
    /\ jobs' = {}
    /\ midnight' = [armed |-> FALSE, due |-> 0]
    /\ lastRebuild' = loc[t].rid
    /\ pc' = [pc EXCEPT ![t] = "upt_sched"]
    /\ loc' = [loc EXCEPT ![t].next = 1]
    /\ UNCHANGED <<clock, started, config, coordinates, store,
                   chains, mixer, nrebuild, busyTicks>>

\* Line 200: scheduler.RemoveByTag("adhan").
upt_remove(t) ==
    /\ Alive /\ pc[t] = "upt_remove"
    /\ jobs' = {}
    /\ lastRebuild' = loc[t].rid
    /\ pc' = [pc EXCEPT ![t] = "upt_sched"]
    /\ loc' = [loc EXCEPT ![t].next = 1]
    /\ UNCHANGED <<clock, started, midnight, config, coordinates, store,
                   chains, mixer, nrebuild, busyTicks>>

\* scheduleAdhan, lines 138-143: a job every day at the formatted time of
\* day, limited to one run and tagged "adhan". On a running scheduler the
\* job gets its timer at once; otherwise StartBlocking sets it.
NewJob(prayerName, prayerTime, rid) ==
    [name |-> prayerName, at |-> FormatTime(prayerTime), by |-> rid,
     timed |-> started,
     due |-> IF started THEN NextRun(FormatTime(prayerTime), clock) ELSE 0,
     runs |-> 0]

scheduleAdhan(prayerName, prayerTime, rid) ==
    jobs' = jobs \cup {NewJob(prayerName, prayerTime, rid)}

\* Lines 203-207: the five scheduleAdhan calls, one a step.
upt_sched(t) ==
    /\ Alive /\ pc[t] = "upt_sched"
    /\ LET n == Names[loc[t].next]
       IN  scheduleAdhan(n, Midnight(clock) + loc[t].times[n], loc[t].rid)
    /\ IF loc[t].next < Len(Names)
       THEN /\ loc' = [loc EXCEPT ![t].next = loc[t].next + 1]
            /\ UNCHANGED <<pc, busyTicks>>
       ELSE /\ loc' = [loc EXCEPT ![t] = Returned(t, "ok")]
            /\ pc' = [pc EXCEPT ![t] = AfterUpdate(t)]
            /\ busyTicks' = 0
    /\ UNCHANGED <<clock, started, midnight, config, coordinates, store,
                   chains, mixer, nrebuild, lastRebuild>>

(* -------------------------------- main --------------------------------- *)

\* Lines 276-278: loadConfig, fatal on error.
m_load ==
    /\ pc[MainT] = "m_load"
    /\ IF store.ok /\ DecodeOk(store.doc)
       THEN /\ config' = DecodeInto(config, store.doc)
            /\ pc' = [pc EXCEPT ![MainT] = "m_http"]
       ELSE /\ UNCHANGED config
            /\ pc' = [pc EXCEPT ![MainT] = "exit"]
    /\ UNCHANGED <<clock, started, jobs, midnight, coordinates, store, loc,
                   chains, mixer, nrebuild, lastRebuild, busyTicks>>

\* Lines 281-289: the router and the goroutine serving it.
m_http ==
    /\ pc[MainT] = "m_http"
    /\ pc' = [pc EXCEPT ![MainT] = "m_coords"]
    /\ UNCHANGED <<clock, started, jobs, midnight, config, coordinates, store,
                   loc, chains, mixer, nrebuild, lastRebuild, busyTicks>>

\* Lines 292-295: the coordinates of the loaded config, fatal on error.
m_coords ==
    /\ pc[MainT] = "m_coords"
    /\ coordinates' = NewCoordinates(config.Lan, config.Lon)
    /\ pc' = [pc EXCEPT ![MainT] =
                 IF coordinates'.nil THEN "exit" ELSE "m_every"]
    /\ UNCHANGED <<clock, started, jobs, midnight, config, store, loc, chains,
                   mixer, nrebuild, lastRebuild, busyTicks>>

\* Lines 298-300: the daily job at 00:00, and the call of line 303.
m_every ==
    /\ pc[MainT] = "m_every"
    /\ midnight' = [armed |-> TRUE, due |-> 0]
    /\ pc' = [pc EXCEPT ![MainT] = "upt_calc"]
    /\ loc' = MarkOverlap(loc, MainT)
    /\ UNCHANGED <<clock, started, jobs, config, coordinates, store, chains,
                   mixer, nrebuild, lastRebuild, busyTicks>>

\* Line 310: StartBlocking. Every job registered so far gets its timer.
m_start ==
    /\ pc[MainT] = "m_start"
    /\ started' = TRUE
    /\ jobs' = {[j EXCEPT !.timed = TRUE, !.due = NextRun(j.at, clock)] :
                   j \in jobs}
    /\ midnight' = [midnight EXCEPT !.due = NextRun(0, clock)]
    /\ pc' = [pc EXCEPT ![MainT] = "m_blocked"]
    /\ UNCHANGED <<clock, config, coordinates, store, loc, chains, mixer,
                   nrebuild, lastRebuild, busyTicks>>

(* --------------------------- the 00:00 job ----------------------------- *)

\* The timer of the daily job: its function calls updatePrayerTimes.
MidnightFire ==
    /\ Alive /\ started /\ midnight.armed /\ midnight.due <= clock
    /\ pc[CronT] = "idle"
    /\ midnight' = [midnight EXCEPT !.due = midnight.due + DayLen]
    /\ pc' = [pc EXCEPT ![CronT] = "upt_calc"]
    /\ loc' = MarkOverlap([loc EXCEPT ![CronT] = NoLocals], CronT)
    /\ UNCHANGED <<clock, started, jobs, config, coordinates, store, chains,
                   mixer, nrebuild, lastRebuild, busyTicks>>

(* ------------------------ updateSettingsHandler ------------------------ *)

\* Lines 219-223: BindJSON; 400 for a body that is not JSON. The requests
\* arrive in the order of their numbers.
h_bind(r) ==
    /\ HttpUp /\ pc[r] = "idle"
    /\ Events < MaxEvents
    /\ \A q \in Requests : q[2] < r[2] => pc[q] # "idle"
    /\ \/ Respond(r, 400, loc)
       \/ \E b \in Bodies :
            /\ pc' = [pc EXCEPT ![r] = "h_read"]
            /\ loc' = [loc EXCEPT ![r].body = b]
    /\ UNCHANGED <<clock, started, jobs, midnight, config, coordinates, store,
                   chains, mixer, nrebuild, lastRebuild, busyTicks>>

\* Lines 226-251: config.toml read and decoded into currentConfig (500 when
\* the read fails or the content is no TOML), then the updates merged into
\* it.
h_read(r) ==
    /\ Alive /\ pc[r] = "h_read"
    /\ \/ Respond(r, 500, loc)
       \/ /\ store.ok
          /\ pc' = [pc EXCEPT ![r] = "h_create"]
          /\ loc' = [loc EXCEPT ![r].read = store.doc,
                                ![r].cur = MergeUpdates(store.doc, loc[r].body)]
    /\ UNCHANGED <<clock, started, jobs, midnight, config, coordinates, store,
                   chains, mixer, nrebuild, lastRebuild, busyTicks>>

\* Lines 254-259: os.Create truncates config.toml; 500 when it fails.
h_create(r) ==
    /\ Alive /\ pc[r] = "h_create"
    /\ \/ Respond(r, 500, loc) /\ UNCHANGED store
       \/ /\ store' = [ok |-> TRUE, doc |-> EmptyDoc]
          /\ pc' = [pc EXCEPT ![r] = "h_encode"]
          /\ UNCHANGED loc
    /\ UNCHANGED <<clock, started, jobs, midnight, config, coordinates,
                   chains, mixer, nrebuild, lastRebuild, busyTicks>>

\* Lines 261-268: the merged document encoded into the file; a failed write
\* leaves a part of it and answers 500. Then onUpdateSettings is called.
h_encode(r) ==
    /\ Alive /\ pc[r] = "h_encode"
    /\ \/ /\ store' = [ok |-> FALSE, doc |-> EmptyDoc]
          /\ Respond(r, 500, loc)
       \/ /\ store' = [ok |-> TRUE, doc |-> loc[r].cur]
          /\ pc' = [pc EXCEPT ![r] = "o_load"]
          /\ loc' = [loc EXCEPT ![r].persisted = TRUE]
    /\ UNCHANGED <<clock, started, jobs, midnight, config, coordinates,
                   chains, mixer, nrebuild, lastRebuild, busyTicks>>

(* --------------------------- onUpdateSettings -------------------------- *)

\* loadConfig, lines 44-49: toml.DecodeFile("config.toml", &config).
loadConfigFails == ~store.ok \/ ~DecodeOk(store.doc)

loadConfigResults ==
    IF ~store.ok THEN {config}
    ELSE IF DecodeOk(store.doc) THEN {DecodeInto(config, store.doc)}
    ELSE DecodeFailInto(config, store.doc)

\* Lines 349-353: the reload; on error onUpdateSettings logs and returns.
o_load(r) ==
    /\ Alive /\ pc[r] = "o_load"
    /\ config' \in loadConfigResults
    /\ pc' = [pc EXCEPT ![r] = IF loadConfigFails THEN "h_ok" ELSE "o_coords"]
    /\ loc' = [loc EXCEPT ![r].preConfig = config,
                          ![r].preCoordinates = coordinates,
                          ![r].reloadErr =
                              IF loadConfigFails THEN "load" ELSE "none"]
    /\ UNCHANGED <<clock, started, jobs, midnight, coordinates, store, chains,
                   mixer, nrebuild, lastRebuild, busyTicks>>

\* Lines 355-361: coordinates is assigned the result of NewCoordinates, nil
\* when it fails; on error onUpdateSettings logs and returns.
o_coords(r) ==
    /\ Alive /\ pc[r] = "o_coords"
    /\ coordinates' = NewCoordinates(config.Lan, config.Lon)
    /\ pc' = [pc EXCEPT ![r] = IF coordinates'.nil THEN "h_ok" ELSE "o_remove"]
    /\ loc' = [loc EXCEPT ![r].reloadErr =
                              IF coordinates'.nil THEN "coords" ELSE "none"]
    /\ UNCHANGED <<clock, started, jobs, midnight, config, store, chains,
                   mixer, nrebuild, lastRebuild, busyTicks>>

\* Lines 363-365: RemoveByTag("adhan"), then updatePrayerTimes.
o_remove(r) ==
    /\ Alive /\ pc[r] = "o_remove"
    /\ jobs' = {}
    /\ pc' = [pc EXCEPT ![r] = "upt_calc"]
    /\ loc' = MarkOverlap([loc EXCEPT ![r].before = jobs], r)
    /\ UNCHANGED <<clock, started, midnight, config, coordinates, store,
                   chains, mixer, nrebuild, lastRebuild, busyTicks>>

\* Line 270: 200 once onUpdateSettings has returned.
h_ok(r) ==
    /\ Alive /\ pc[r] = "h_ok"
    /\ Respond(r, 200, loc)
    /\ UNCHANGED <<clock, started, jobs, midnight, config, coordinates, store,
                   chains, mixer, nrebuild, lastRebuild, busyTicks>>

(* ------------------------------ job firing ----------------------------- *)

\* A playback chain: the function of a job, lines 143-159. stage 1 is the
\* adhan, stage 2 the prayer after it. err1, flag, vol and heard record what
\* the chain did: whether the first playAudio returned an error, the value
\* of config.AdhanPrayer read on line 152, the volume each playAudio got
\* from getVolumeForPrayer, and the requests that had been answered 200
\* when the adhan's volume was read. at is the job's time of day; got
\* counts the values each playAudio has received on its done channel; seen
\* is config as it was when the adhan's volume was read; gain is the
\* exponent each playAudio gave to effects.Volume; held is what each
\* playAudio has acquired and not released; day is the calendar day of the
\* firing.
NewChain(j) ==
    [name |-> j.name, by |-> j.by, at |-> j.at, day |-> clock \div DayLen,
     pc |-> "init", stage |-> 1,
     err1 |-> FALSE, flag |-> FALSE, vol |-> <<0, 0>>, heard |-> {},
     got |-> <<0, 0>>, seen |-> ZeroConfig, gain |-> <<0, 0>>,
     held |-> <<{}, {}>>]

Due(j) == j.timed /\ j.due <= clock

\* The timer of a job registered without LimitRunsTo(1), as in the
\* program's first version: the run is not counted.
FireDaily(j) ==
    /\ Alive /\ started /\ Due(j) /\ j.runs = 0
    /\ Len(chains) < MaxFirings /\ Events < MaxEvents
    /\ jobs' = (jobs \ {j}) \cup {[j EXCEPT !.due = j.due + DayLen]}
    /\ chains' = Append(chains, NewChain(j))
    /\ UNCHANGED <<clock, started, midnight, config, coordinates, store, pc,
                   loc, mixer, nrebuild, lastRebuild, busyTicks>>

\* The timer of a job that has not run yet: the scheduler starts the job's
\* function in a goroutine of its own, counts the run and sets the timer for
\* the next day.
FireWithin(j, budget) ==
    /\ Alive /\ started /\ Due(j) /\ j.runs = 0
    /\ Len(chains) < MaxFirings /\ Events < budget
    /\ jobs' = (jobs \ {j}) \cup {[j EXCEPT !.runs = 1, !.due = j.due + DayLen]}
    /\ chains' = Append(chains, NewChain(j))
    /\ UNCHANGED <<clock, started, midnight, config, coordinates, store, pc,
                   loc, mixer, nrebuild, lastRebuild, busyTicks>>

Fire(j) == FireWithin(j, MaxEvents)

\* The timer of a job that has used up LimitRunsTo(1): the scheduler removes
\* the job instead of running it.
Expire(j) ==
    /\ Alive /\ started /\ Due(j) /\ j.runs >= 1
    /\ jobs' = jobs \ {j}
    /\ UNCHANGED <<clock, started, midnight, config, coordinates, store, pc,
                   loc, chains, mixer, nrebuild, lastRebuild, busyTicks>>

\* A goroutine that is between two steps of main, of the 00:00 job or of a
\* request handler.
Busy(t) == pc[t] \notin {"idle", "done", "m_blocked", "panic", "exit"}

\* Time passes once every timer that is due has fired.
Tick ==
    /\ Alive
    /\ clock + 1 < DayLen * MaxDay
    /\ ~(started /\ \E j \in jobs : Due(j))
    /\ ~(started /\ midnight.armed /\ midnight.due <= clock)
    /\ clock' = clock + 1
    /\ IF \E t \in Threads : Busy(t)
       THEN /\ \A t \in Threads : Busy(t) => pc[t] = "upt_sched"
            /\ started /\ busyTicks < MaxBusyTicks
            /\ busyTicks' = busyTicks + 1
       ELSE UNCHANGED busyTicks
    /\ UNCHANGED <<started, jobs, midnight, config, coordinates, store, pc,
                   loc, chains, mixer, nrebuild, lastRebuild>>

(* ------------------------------ playAudio ------------------------------ *)

\* Line 112: "volume / 100.0".
FullVolume == 100

\* Lines 108-112: effects.Volume with Base 2 and Volume
\* -4 + (volume / 100.0 * 4); the samples are multiplied by 2 to that
\* power. The exponent is kept in hundredths.
VolumeExponent(volume) == (volume * 4 * 100) \div FullVolume - 4 * 100

AudioType(ch) == IF ch.stage = 1 THEN ch.name ELSE "prayer"

\* playAudio returns an error. Lines 146-149: after the adhan the chain
\* returns; lines 155-157: after the prayer it only logs.
PlayError(c) ==
    chains' = [chains EXCEPT ![c].pc = "done",
                             ![c].err1 = (chains[c].stage = 1)]

\* What playAudio acquires: the file of os.Open (line 87), the decoder of
\* mp3.Decode (line 93) and the output device of speaker.Init (line 99).
Resources == {"file", "decoder", "speaker"}

\* Lines 91 and 97: the deferred f.Close() and streamer.Close(), all that
\* playAudio releases when it returns.
Deferred == {"file", "decoder"}

\* speaker.Init begins with the library's Close(): the output device that
\* an earlier playAudio opened is closed.
CloseSpeaker(chs) ==
    [i \in DOMAIN chs |->
        [chs[i] EXCEPT !.held = <<chs[i].held[1] \ {"speaker"},
                                  chs[i].held[2] \ {"speaker"}>>]]

\* Lines 87-102: os.Open, mp3.Decode and speaker.Init; each may fail, and
\* then playAudio returns the error, the deferred calls closing what was
\* opened. speaker.Init closes the speaker and starts it with an empty
\* mixer, whatever it was playing, before it opens the output device.
play_init(c) ==
    /\ Alive /\ chains[c].pc = "init"
    /\ \/ PlayError(c) /\ UNCHANGED mixer
       \/ /\ chains' = [CloseSpeaker(chains) EXCEPT
                           ![c].pc = "done",
                           ![c].err1 = (chains[c].stage = 1)]
          /\ mixer' = {}
       \/ /\ chains' = [CloseSpeaker(chains) EXCEPT
                           ![c].pc = "play",
                           ![c].held[chains[c].stage] = Resources]
          /\ mixer' = {}
    /\ UNCHANGED <<clock, started, jobs, midnight, config, coordinates, store,
                   pc, loc, nrebuild, lastRebuild, busyTicks>>

\* playAudio returning straight after speaker.Play, with the streamer still
\* being played.
play_start(c) ==
    /\ Alive /\ chains[c].pc = "play"
    /\ chains' = [chains EXCEPT
          ![c].pc = IF chains[c].stage = 1 THEN "check" ELSE "done",
          ![c].vol[chains[c].stage] =
              getVolumeForPrayer(config, IF chains[c].stage = 1
                                         THEN chains[c].name ELSE "prayer"),
          ![c].held[chains[c].stage] =
              chains[c].held[chains[c].stage] \ Deferred]
    /\ mixer' = mixer \cup {c}
    /\ UNCHANGED <<clock, started, jobs, midnight, config, coordinates, store,
                   pc, loc, nrebuild, lastRebuild, busyTicks>>

\* Lines 108-118: the volume of the audio type, then speaker.Play of the
\* streamer followed by the callback.
play_play(c) ==
    /\ Alive /\ chains[c].pc = "play"
    /\ chains' = [chains EXCEPT
          ![c].pc = "wait",
          ![c].vol[chains[c].stage] =
              getVolumeForPrayer(config, AudioType(chains[c])),
          ![c].heard = IF chains[c].stage = 1
                       THEN {r \in Requests : loc[r].status = 200}
                       ELSE chains[c].heard,
          ![c].seen = IF chains[c].stage = 1 THEN config ELSE chains[c].seen,
          ![c].gain[chains[c].stage] =
              VolumeExponent(getVolumeForPrayer(config, AudioType(chains[c])))]
    /\ mixer' = mixer \cup {c}
    /\ UNCHANGED <<clock, started, jobs, midnight, config, coordinates, store,
                   pc, loc, nrebuild, lastRebuild, busyTicks>>

\* playAudio returning nil without a value on done: no "<-done".
play_return(c) ==
    /\ Alive /\ chains[c].pc = "wait"
    /\ UNCHANGED mixer
    /\ chains' = [chains EXCEPT
          ![c].pc = IF chains[c].stage = 1 THEN "check" ELSE "done",
          ![c].held[chains[c].stage] =
              chains[c].held[chains[c].stage] \ Deferred]
    /\ UNCHANGED <<clock, started, jobs, midnight, config, coordinates, store,
                   pc, loc, nrebuild, lastRebuild, busyTicks>>

\* Lines 116-121: the streamer has been played to its end, the callback
\* sends on done and playAudio, which waits for it, returns nil.
play_done(c) ==
    /\ Alive /\ chains[c].pc = "wait" /\ c \in mixer
    /\ mixer' = mixer \ {c}
    /\ chains' = [chains EXCEPT
          ![c].pc = IF chains[c].stage = 1 THEN "check" ELSE "done",
          ![c].got[chains[c].stage] = chains[c].got[chains[c].stage] + 1,
          ![c].held[chains[c].stage] =
              chains[c].held[chains[c].stage] \ Deferred]
    /\ UNCHANGED <<clock, started, jobs, midnight, config, coordinates, store,
                   pc, loc, nrebuild, lastRebuild, busyTicks>>

\* Line 152 without its test of config.AdhanPrayer.
PlaysPrayerAnyway(prayerName, adhanPrayer) == prayerName # "test"

\* Line 152: the prayer follows when the name is not "test" and
\* config.AdhanPrayer is set.
PlaysPrayer(prayerName, adhanPrayer) == prayerName # "test" /\ adhanPrayer

chain_check(c) ==
    /\ Alive /\ chains[c].pc = "check"
    /\ chains' = [chains EXCEPT
          ![c].flag = config.AdhanPrayer,
          ![c].stage = IF PlaysPrayer(chains[c].name, config.AdhanPrayer)
                       THEN 2 ELSE 1,
          ![c].pc = IF PlaysPrayer(chains[c].name, config.AdhanPrayer)
                    THEN "init" ELSE "done"]
    /\ UNCHANGED <<clock, started, jobs, midnight, config, coordinates, store,
                   pc, loc, mixer, nrebuild, lastRebuild, busyTicks>>

(* --------------------------- the whole program ------------------------- *)

Next ==
    \/ m_load \/ m_http \/ m_coords \/ m_every \/ m_start
    \/ MidnightFire
    \/ Tick
    \/ \E t \in Threads : upt_calc(t) \/ upt_remove(t) \/ upt_sched(t)
    \/ \E r \in Requests :
          \/ h_bind(r) \/ h_read(r) \/ h_create(r) \/ h_encode(r)
          \/ o_load(r) \/ o_coords(r) \/ o_remove(r) \/ h_ok(r)
    \/ \E j \in jobs : Fire(j) \/ Expire(j)
    \/ \E c \in DOMAIN chains :
          \/ play_init(c) \/ play_play(c) \/ play_done(c)
          \/ chain_check(c)

Spec == Init /\ [][Next]_vars

\* The settings endpoint alone: the program starts (with either file) and
\* serves requests, while no time passes.
InitSettings == InitWith(InitDocs)

NextSettings ==
    \/ m_load \/ m_http \/ m_coords \/ m_every \/ m_start
    \/ \E t \in Threads : upt_calc(t) \/ upt_remove(t) \/ upt_sched(t)
    \/ \E r \in Requests :
          \/ h_bind(r) \/ h_read(r) \/ h_create(r) \/ h_encode(r)
          \/ o_load(r) \/ o_coords(r) \/ o_remove(r) \/ h_ok(r)

SpecSettings == InitSettings /\ [][NextSettings]_vars

(* ------------------------------- claims -------------------------------- *)

\* C1: at every moment the scheduler holds at most five "adhan" jobs, at
\* most one for each prayer name, and all of them come from the rebuild
\* that last cleared the jobs.
C1_FiveJobsOfOneRebuild ==
    /\ Cardinality(jobs) <= Len(Names)
    /\ \A j1, j2 \in jobs : j1.name = j2.name => j1 = j2
    /\ \A j \in jobs : j.by = lastRebuild

\* C2: a rebuild whose computation of the prayer times fails returns with
\* the "adhan" jobs as they were before the rebuild began; for a rebuild
\* forced by new settings that is before onUpdateSettings removed them.
C2_FailedRebuildKeepsJobs ==
    [][\A t \in Threads :
          (pc[t] = "upt_calc" /\ pc'[t] = AfterUpdate(t))
              => jobs' = (IF t \in Requests THEN loc[t].before ELSE jobs)]_vars

\* C3: at most one playAudio is between speaker.Init and its return at any
\* moment.
C3_OnePlaybackAtATime ==
    Cardinality({c \in DOMAIN chains : chains[c].pc \in {"play", "wait"}}) <= 1

C5_FailedReloadKeepsConfig ==
    \A r \in Requests :
        loc[r].reloadErr = "load"
            => /\ pc[r] = "h_ok" => config = loc[r].preConfig
               /\ loc[r].status # 200

\* C6: once onUpdateSettings has returned (the program being past its
\* start), either the reload and the rebuild were both carried out, so that
\* the coordinates are those of the new config, or config and coordinates
\* are what they were before and the jobs were not touched.
C6_ReloadAllOrNothing ==
    \A r \in Requests :
        (pc[r] = "h_ok" /\ pc[MainT] = "m_blocked")
            => \/ /\ loc[r].reloadErr = "none" /\ loc[r].computed = "ok"
                  /\ ~coordinates.nil
                  /\ coordinates = NewCoordinates(config.Lan, config.Lon)
               \/ /\ loc[r].reloadErr # "none"
                  /\ config = loc[r].preConfig
                  /\ coordinates = loc[r].preCoordinates

\* C7: a request that has been answered got 400, 500 or 200: 400 exactly
\* for a body that is no JSON, 500 whenever the reload could not parse the
\* store, and 200 only when the merged document was persisted, the reload
\* succeeded and the rebuild was carried out.
C7_ResponseTellsOutcome ==
    \A r \in Requests :
        pc[r] = "done"
            => /\ loc[r].status \in {200, 400, 500}
               /\ (loc[r].status = 400) <=> (loc[r].body = NoBody)
               /\ loc[r].reloadErr = "load" => loc[r].status = 500
               /\ loc[r].status = 200
                     => /\ loc[r].persisted
                        /\ loc[r].reloadErr = "none"
                        /\ loc[r].computed = "ok"

\* The document C8 asks for: every top-level key of the update overwritten
\* in the stored document, every key of the update's volume overwritten in
\* the stored volume, the rest as it was.
C8_Merged(D, U) ==
    [top |-> Overwrite(D.top, U.top),
     hasVolume |-> D.hasVolume \/ U.volumeKind # "none",
     volume |-> Overwrite(D.volume, U.volume)]

\* C8: when the handler is about to answer 200, config.toml holds the
\* stored document with every key of the update written into it.
C8_NoKeyDropped ==
    \A r \in Requests :
        pc[r] = "h_ok"
            => store.ok /\ store.doc = C8_Merged(loc[r].read, loc[r].body)

\* C9: a playback chain of the job of prayer n that reads its volume after
\* a request setting volume.n = v was answered 200 plays the adhan with
\* volume v.
C9_VolumeOfUpdateUsed ==
    \A c \in DOMAIN chains :
        \A r \in chains[c].heard :
            (/\ loc[r].body.volumeKind = "object"
             /\ chains[c].name \in DOMAIN loc[r].body.volume)
                => chains[c].vol[1] = loc[r].body.volume[chains[c].name].num

\* C10: in a playback chain the prayer is attempted exactly when the
\* adhan's playAudio returned nil, the name is not "test" and
\* config.AdhanPrayer was set, and it is played with the volume configured
\* for "prayer"; the step in which the adhan's playAudio returns an error
\* ends the chain and touches neither the scheduler nor any goroutine.
C10_PrayerFollowsAdhan ==
    /\ [](\A c \in DOMAIN chains :
            /\ chains[c].stage = 2
                  => ~chains[c].err1 /\ chains[c].name # "test" /\ chains[c].flag
            /\ (chains[c].pc = "done" /\ chains[c].stage = 1)
                  => chains[c].err1 \/ chains[c].name = "test" \/ ~chains[c].flag
            /\ chains[c].err1 => chains[c].stage = 1 /\ chains[c].pc = "done")
    /\ [][\A c \in DOMAIN chains :
            /\ (chains[c].stage = 2 /\ chains[c].pc = "play"
                    /\ chains'[c].pc = "wait")
                  => chains'[c].vol[2] = config.Volume["AdhanPrayer"]
            /\ (~chains[c].err1 /\ chains'[c].err1)
                  => /\ chains'[c].pc = "done"
                     /\ UNCHANGED <<started, jobs, midnight, pc>>]_vars

\* Two firings: one has played the adhan and the prayer to the end, the
\* other ended when its adhan could not be played.
C10_BothOutcomes ==
    \E c, d \in DOMAIN chains :
        /\ chains[c].stage = 2 /\ chains[c].pc = "done" /\ chains[c].vol[2] > 0
        /\ chains[d].err1

\* C11: a chain is in its second playAudio only after the first has
\* received the value its completion callback sends on done, and it goes
\* there from line 152, after the first playAudio has returned.
C11_PrayerAfterAdhanDone ==
    /\ [](\A c \in DOMAIN chains :
            chains[c].stage = 2 => chains[c].got[1] = 1)
    /\ [][\A c \in DOMAIN chains :
            (chains[c].stage = 1 /\ chains'[c].stage = 2)
                => chains[c].pc = "check" /\ c \notin mixer]_vars

\* A chain is playing the prayer.
C11_PrayerPlaying ==
    \E c \in DOMAIN chains : chains[c].stage = 2 /\ chains[c].pc = "wait"

\* C12: a playAudio past speaker.Init returns only in a step in which the
\* speaker has played its streamer to the end and the callback hands it
\* one value on done; no playAudio gets a second value, and a streamer
\* the speaker still holds belongs to a playAudio that is waiting on done.
C12_DoneOnce ==
    /\ [](\A c \in DOMAIN chains :
            /\ \A i \in 1..2 : chains[c].got[i] <= 1
            /\ c \in mixer
                  => chains[c].pc = "wait" /\ chains[c].got[chains[c].stage] = 0)
    /\ [][\A c \in DOMAIN chains :
            (chains[c].pc = "wait" /\ chains'[c].pc # "wait")
                => /\ c \in mixer /\ c \notin mixer'
                   /\ chains'[c].got[chains[c].stage] = 1]_vars

\* One chain has returned from both its playAudio calls, each with its one
\* value, while another waits for a streamer the speaker has dropped.
C12_ReturnedAndDropped ==
    \E c, d \in DOMAIN chains :
        /\ chains[c].pc = "done" /\ chains[c].got = <<1, 1>>
        /\ chains[d].pc = "wait" /\ d \notin mixer

\* The goroutine of request r is in the rebuild that onUpdateSettings
\* forces, from its RemoveByTag to the return of updatePrayerTimes.
C13_Forcing(r) == pc[r] \in {"o_remove"} \cup RebuildLabels

\* C13: while a playback chain is under way, the steps of a rebuild forced
\* by a settings request leave every chain and the speaker alone; its
\* RemoveByTag empties the job set, no job that was held then and had not
\* fired fires later, and when it returns after its scheduleAdhan calls the
\* scheduler holds the five jobs it registered and no other.
C13_RebuildBesideChain ==
    [][\A r \in Requests :
          (C13_Forcing(r) /\ \E c \in DOMAIN chains : chains[c].pc # "done")
              => /\ pc'[r] # pc[r] => chains' = chains /\ mixer' = mixer
                 /\ (pc[r] = "o_remove" /\ pc'[r] # "o_remove") => jobs' = {}
                 /\ Len(chains') > Len(chains)
                       => ~\E j \in loc[r].before :
                              /\ j.runs = 0
                              /\ j.name = chains'[Len(chains')].name
                              /\ j.by = chains'[Len(chains')].by
                 /\ (pc[r] = "upt_sched" /\ pc'[r] = "h_ok")
                       => /\ Cardinality(jobs') = Len(Names)
                          /\ \A j \in jobs' : j.by = loc[r].rid]_vars

\* The place of a prayer name in the order of the scheduleAdhan calls.
C14_Order(n) == CHOOSE i \in 1..Len(Names) : Names[i] = n

\* C14: when a job fires, no job of its group that is still to fire on the
\* same day has an earlier time of day, or the same time and an earlier
\* registration; and every chain of its group with the same time of day
\* has ended.
C14_FiringOrder ==
    [][Len(chains') > Len(chains)
          => LET d == chains'[Len(chains')]
             IN  /\ \A j \in jobs :
                       (/\ j.by = d.by /\ j.name # d.name /\ j.runs = 0
                        /\ j.timed /\ j.due \div DayLen = clock \div DayLen)
                           => /\ j.at >= d.at
                              /\ j.at = d.at
                                    => C14_Order(d.name) < C14_Order(j.name)
                 /\ \A c \in DOMAIN chains :
                       (chains[c].by = d.by /\ chains[c].at = d.at)
                           => chains[c].pc = "done"]_vars

\* C15: what a playback chain reads from config after the adhan's volume,
\* the flag on line 152 and the prayer's volume, is what the config held
\* when the adhan's volume was read.
C15_ChainReadsOneConfig ==
    [][\A c \in DOMAIN chains :
          /\ (chains[c].pc = "check" /\ chains'[c].pc # "check")
                => chains'[c].flag = chains[c].seen.AdhanPrayer
          /\ (chains[c].stage = 2 /\ chains[c].pc = "play"
                  /\ chains'[c].pc = "wait")
                => chains'[c].vol[2] = chains[c].seen.Volume["AdhanPrayer"]]_vars

\* C16: once main has registered the job at 00:00 it stays armed; on a
\* running scheduler its timer is the next midnight, never one that has
\* passed unserved; only its own firing moves the timer, by one day, and
\* that firing happens at 00:00 and starts updatePrayerTimes.
C16_DailyJobStays ==
    /\ [](/\ pc[MainT] \notin {"m_load", "m_http", "m_coords", "m_every", "exit"}
              => midnight.armed
          /\ started
              => /\ midnight.armed
                 /\ Tod(midnight.due) = 0
                 /\ midnight.due >= clock
                 /\ midnight.due <= Midnight(clock) + DayLen)
    /\ [][(started /\ midnight' # midnight)
              => /\ Tod(clock) = 0 /\ midnight.due = clock
                 /\ midnight' = [armed |-> TRUE, due |-> clock + DayLen]
                 /\ pc[CronT] = "idle" /\ pc'[CronT] = "upt_calc"]_vars

\* The second day: the job has fired at 00:00, its rebuild has returned and
\* the job is armed for the midnight after.
C16_SecondDay ==
    /\ clock >= DayLen /\ pc[CronT] = "idle" /\ Alive
    /\ midnight = [armed |-> TRUE, due |-> 2 * DayLen]
    /\ \E j \in jobs : j.by = lastRebuild /\ lastRebuild >= 2

\* C17: no job fires before main's first rebuild has returned and the
\* scheduler has been started, and a job fires only when the rebuild that
\* registered it has returned from updatePrayerTimes.
C17_FiresAfterItsRebuild ==
    /\ [](chains # << >> => started /\ pc[MainT] \in {"m_blocked", "exit"})
    /\ [][Len(chains') > Len(chains)
            => \A t \in Threads :
                  InRebuild(t) => loc[t].rid # chains'[Len(chains')].by]_vars

\* The jobs the scheduler will still run, each named by its prayer and the
\* rebuild that registered it: a job that has used up LimitRunsTo(1) stays
\* in the scheduler's list until its next timer or the next RemoveByTag,
\* but it is not run again.
C18_Armed == {<<j.name, j.by>> : j \in {k \in jobs : k.runs = 0}}

\* C18: a job runs its function at most once; a job that has fired is not
\* armed; a job becomes armed only by a scheduleAdhan call, and it stops
\* being armed only by firing or by a RemoveByTag that empties the job set.
C18_OneShot ==
    /\ [](/\ \A j \in jobs : j.runs <= 1
          /\ \A c, d \in DOMAIN chains :
                (chains[c].name = chains[d].name /\ chains[c].by = chains[d].by)
                    => c = d
          /\ \A c \in DOMAIN chains :
                <<chains[c].name, chains[c].by>> \notin C18_Armed)
    /\ [][/\ \A id \in C18_Armed' \ C18_Armed :
                \E t \in Threads :
                    /\ pc[t] = "upt_sched"
                    /\ id = <<Names[loc[t].next], loc[t].rid>>
          /\ \A id \in C18_Armed \ C18_Armed' :
                \/ /\ Len(chains') = Len(chains) + 1
                   /\ id = <<chains'[Len(chains')].name, chains'[Len(chains')].by>>
                \/ jobs' = {}]_vars

\* A job has fired and its chain has ended; the scheduler still lists the
\* job, spent, beside jobs of its group that are armed.
C18_Spent ==
    \E c \in DOMAIN chains :
        /\ chains[c].pc = "done"
        /\ \E j \in jobs :
              j.name = chains[c].name /\ j.by = chains[c].by /\ j.runs = 1
        /\ \E j \in jobs : j.by = chains[c].by /\ j.runs = 0

(* ---------------------------- playAudio alone --------------------------- *)

\* config.toml with the fajr volume v.
GainDoc(v) == [FullDoc EXCEPT !.volume["fajr"] = SFloat(v)]

\* The program running on such a file at the moment the fajr job has
\* fired: main is in StartBlocking, the five jobs of its rebuild are
\* registered and the chain of the fajr job is about to call playAudio.
GainJobs ==
    {[name |-> n,
      at |-> PrayerTimesAt(NewCoordinates(52, 13))[n],
      by |-> 1, timed |-> TRUE,
      due |-> PrayerTimesAt(NewCoordinates(52, 13))[n]
                 + (IF n = "fajr" THEN DayLen ELSE 0),
      runs |-> IF n = "fajr" THEN 1 ELSE 0] : n \in PrayerNames}

InitGain ==
    \E v \in 0..FullVolume :
        /\ clock = PrayerTimesAt(NewCoordinates(52, 13))["fajr"]
        /\ started = TRUE
        /\ jobs = GainJobs
        /\ midnight = [armed |-> TRUE, due |-> DayLen]
        /\ config = DecodeInto(ZeroConfig, GainDoc(v))
        /\ coordinates = NewCoordinates(52, 13)
        /\ store = [ok |-> TRUE, doc |-> GainDoc(v)]
        /\ pc = [t \in Threads |-> IF t = MainT THEN "m_blocked" ELSE "idle"]
        /\ loc = [t \in Threads |-> NoLocals]
        /\ chains = <<NewChain(CHOOSE j \in GainJobs : j.name = "fajr")>>
        /\ mixer = {}
        /\ nrebuild = 1
        /\ lastRebuild = 1
        /\ busyTicks = 0

NextGain ==
    \E c \in DOMAIN chains :
        \/ play_init(c) \/ play_play(c) \/ play_done(c)
        \/ chain_check(c)

SpecGain == InitGain /\ [][NextGain]_vars

\* The gain of effects.Volume in hundredths of a decibel: 20 * log10(2),
\* which is 6.02, for each unit of the exponent e, given in hundredths.
C19_Decibel(e) == (602 * e) \div 100

\* C19: the exponent playAudio gives to effects.Volume for a volume v in
\* 0..100 is not below the exponent of any smaller volume, is 0 for 100,
\* and for 0 gives a gain of about -96 dB.
C19_GainOfVolume ==
    [][\A c \in DOMAIN chains :
          (chains[c].pc = "play" /\ chains'[c].pc = "wait")
              => LET v == chains'[c].vol[chains[c].stage]
                     e == chains'[c].gain[chains[c].stage]
                 IN  /\ \A w \in 0..FullVolume :
                           w < v => VolumeExponent(w) <= e
                     /\ v = FullVolume => e = 0
                     /\ v = 0 => C19_Decibel(e) <= -9000]_vars

\* C20: the volume config holds for each of the five prayers is a
\* percentage in 0..100, so that the exponent playAudio derives from it is
\* at most 0.
C20_VolumeIsPercentage ==
    \A n \in PrayerNames :
        /\ getVolumeForPrayer(config, n) \in 0..FullVolume
        /\ VolumeExponent(getVolumeForPrayer(config, n)) <= 0


(* C21: on every exit path of playAudio (the file cannot be opened, the
   decoding fails, the speaker cannot be initialised, the playback
   completes) everything that call acquired, the file handle, the decoder
   stream and the output device handle, has been released when the call
   returns. *)
C21_ReleasedOnReturn ==
    \A c \in DOMAIN chains :
        /\ (chains[c].pc \in {"check", "done"} \/ chains[c].stage = 2)
              => chains[c].held[1] = {}
        /\ (chains[c].stage = 2 /\ chains[c].pc = "done")
              => chains[c].held[2] = {}


(* ------------------------------ one day -------------------------------- *)

\* The program running on config.toml as shipped at the start of a day:
\* main is in StartBlocking and the five jobs of its rebuild wait for
\* their times.
DayJobs ==
    {[name |-> n,
      at |-> PrayerTimesAt(NewCoordinates(52, 13))[n],
      by |-> 1, timed |-> TRUE,
      due |-> PrayerTimesAt(NewCoordinates(52, 13))[n],
      runs |-> 0] : n \in PrayerNames}

InitDay ==
    /\ clock = 0
    /\ started = TRUE
    /\ jobs = DayJobs
    /\ midnight = [armed |-> TRUE, due |-> DayLen]
    /\ config = DecodeInto(ZeroConfig, FullDoc)
    /\ coordinates = NewCoordinates(52, 13)
    /\ store = [ok |-> TRUE, doc |-> FullDoc]
    /\ pc = [t \in Threads |-> IF t = MainT THEN "m_blocked" ELSE "idle"]
    /\ loc = [t \in Threads |-> NoLocals]
    /\ chains = << >>
    /\ mixer = {}
    /\ nrebuild = 1
    /\ lastRebuild = 1
    /\ busyTicks = 0

\* A firing that may follow an earlier firing and a request.
FireDay(j) == FireWithin(j, MaxEvents + 1)

\* The jobs fire and requests are served until the 00:00 job is due; a
\* request may come between two firings.
NextDay ==
    \/ Tick
    \/ \E t \in Threads : upt_calc(t) \/ upt_remove(t) \/ upt_sched(t)
    \/ \E r \in Requests :
          \/ h_bind(r) \/ h_read(r) \/ h_create(r) \/ h_encode(r)
          \/ o_load(r) \/ o_coords(r) \/ o_remove(r) \/ h_ok(r)
    \/ \E j \in jobs : FireDay(j)
    \/ \E c \in DOMAIN chains :
          \/ play_init(c) \/ play_play(c) \/ play_done(c)
          \/ chain_check(c)

SpecDay == InitDay /\ [][NextDay]_vars

(* C22: each announcement name is played at most once per calendar day,
   whatever the job firings, midnight rebuilds and settings rebuilds: a
   rebuild that comes after a name has fired today arms no job of that name
   that fires again on the same day. *)
C22_OncePerDay ==
    \A c, d \in DOMAIN chains :
        (c # d /\ chains[c].name = chains[d].name)
            => chains[c].day # chains[d].day


(* ------------------------- playbacks to their end ---------------------- *)

\* One step of the goroutine of chain c.
PlayStep(c) ==
    /\ c \in DOMAIN chains
    /\ \/ play_init(c) \/ play_play(c) \/ play_done(c)
       \/ chain_check(c)

\* The chain of the fajr job is about to call playAudio and the dhuhr job
\* is due at the same time: its timer may fire at any moment.
NextPlayback ==
    \/ \E c \in 1..MaxFirings : PlayStep(c)
    \/ \E j \in jobs : Fire(j)

\* The Go scheduler runs every goroutine that can take a step, the speaker
\* plays every streamer it holds to its end, and a timer that is due
\* fires.
FairPlayback ==
    /\ \A c \in 1..MaxFirings : WF_vars(PlayStep(c))
    /\ WF_vars(\E j \in jobs : Fire(j))

SpecPlayback == InitGain /\ [][NextPlayback]_vars /\ FairPlayback

(* C23: every invocation of playAudio eventually returns, with an error or
   after its callback has sent on done, for every interleaving of job
   firings, also when a second playAudio re-initialises the speaker while
   the first is still waiting on its done channel. *)
C23_PlayAudioReturns ==
    \A c \in 1..MaxFirings :
        (c \in DOMAIN chains /\ chains[c].pc \in {"init", "play", "wait"})
            ~> (c \in DOMAIN chains /\ chains[c].pc \in {"check", "done"})


(* C24: a settings request answered with a status other than 200 leaves
   config.toml exactly as it was before the request; a failure while the
   merged document is encoded or written does not leave the file truncated
   or partly written. *)
C24_RefusedLeavesStore ==
    [][\A r \in Requests :
          (pc[r] # "done" /\ pc'[r] = "done" /\ loc'[r].status # 200)
             => store' = IF pc[r] \in {"idle", "h_read"}
                         THEN store
                         ELSE [ok |-> TRUE, doc |-> loc[r].read]]_vars


(* C25: whenever updatePrayerTimes calls the prayer-time calculator, the
   global coordinates it passes is the result of a successful NewCoordinates
   call, never an unset or failed one, for every ordering of startup,
   settings requests and rebuilds. *)
C25_CalculatorGetsCoordinates ==
    [][\A t \in Threads :
          (pc[t] = "upt_calc" /\ pc'[t] # "upt_calc") => ~coordinates.nil]_vars

============================================================================
